---- MODULE Spec2Model ----
(***************************************************************************)
(* Model of the BMI meter firmware (src/src/main.cpp): the polling loop,   *)
(* the StabilityTracker and the BMI_Display classifier.                    *)
(*                                                                         *)
(* Representation of the float samples: every height and weight is an      *)
(* integer number of 1/Scale cm or kg.  All tolerances, thresholds and     *)
(* sample values used here are multiples of 1/Scale that a float holds     *)
(* exactly, so the float arithmetic of the comparisons is exact.           *)
(* The BMI comparisons are done on exact fractions in tenths               *)
(* (bmi > c  <=>  100000*weight > (10*c)*height*height); the float32 and   *)
(* float64 evaluations of 10000.0*weight/height/height agree with the      *)
(* exact comparison for all integer heights 1..250 and weights 0..399.     *)
(***************************************************************************)
EXTENDS Integers, Sequences, FiniteSets, TLC

\* ---------------------------------------------------------------- bounds
\* the integer heights and weights the classifier is applied to on its own
MinClassifyHeight == 95
MaxClassifyHeight == 170
MinClassifyWeight == 10
MaxClassifyWeight == 40
\* the classifier outside its contract: heights -MaxBadHeight..0 and weights
\* 0..MaxBadWeight
MaxBadHeight == 20
MaxBadWeight == 25
\* resolution of the modelled samples: Scale units per kg and per cm
Scale == 2
\* longest run of present polls since boot or the last reset that Spec follows
MaxRun == 8

\* ------------------------------------------------------ program constants
SENSOR_MOUNT_HEIGHT_CM == 250
LCD_COLS == 16
WEIGHT_TOLERANCE_KG == 2
HEIGHT_TOLERANCE_CM == 3
STABLE_READINGS_REQUIRED == 5
\* int is 16 bits wide on the AVR target of this sketch
INT_MAX == 32767
INT_MIN == (-INT_MAX) - 1
\* the presence floors of loop() and the lower range limit of the ultrasonic sensor
MIN_WEIGHT_KG == 10
MIN_HEIGHT_CM == 100
MIN_DISTANCE_CM == 10

Abs(x) == IF x < 0 THEN -x ELSE x

\* a conversion that rounds to the nearest integer
ToInt_Nearest(x) == (2 * x + Scale) \div (2 * Scale)

\* (int)x of a float x: truncation toward zero
ToInt(x) == IF x >= 0 THEN x \div Scale ELSE -((-x) \div Scale)

\* ------------------------------------------------------------ BMI_Display
bmi_words == <<"podvaha", "v norme", "nadvaha", "obezita">>

\* cut points of the six height bands, in tenths of a BMI unit
bmi_values ==
  << <<130, 165, 180>>,
     <<135, 180, 200>>,
     <<140, 195, 225>>,
     <<155, 225, 250>>,
     <<170, 240, 280>>,
     <<190, 250, 300>> >>

height_groups == <<115, 130, 145, 155, 165>>

\* a scan that also stops at a breakpoint equal to the height
BelowGroup_OrEqual(height, group) == height <= group

\* the comparison of the scan in getHeightIndex: is height below the breakpoint
BelowGroup(height, group) == height < group

RECURSIVE HeightScan(_, _)
HeightScan(height, i) ==
  IF i >= 5 THEN 5
  ELSE IF BelowGroup(height, height_groups[i + 1]) THEN i
  ELSE HeightScan(height, i + 1)

\* int getHeightIndex(): index 0..5 of the height band
getHeightIndex(height) == HeightScan(height, 0)

\* a comparison that puts a BMI equal to the cut point above it
BmiGreater_OrEqual(weight, height, c10) ==
  IF height = 0 THEN weight > 0
  ELSE 100000 * weight >= c10 * height * height

\* bmi > c for bmi = 10000.0 * weight / height / height and c = c10 / 10.
\* A zero height divides by zero: +inf for weight > 0 (greater than every
\* cut point), NaN for weight = 0 and -inf for weight < 0 (greater than none).
BmiGreater(weight, height, c10) ==
  IF height = 0 THEN weight > 0
  ELSE 100000 * weight > c10 * height * height

\* the three consecutive ifs of updateBMI that select the word
BmiWordIndex(weight, height) ==
  LET i  == getHeightIndex(height)
      i1 == IF BmiGreater(weight, height, bmi_values[i + 1][1]) THEN 1 ELSE 0
      i2 == IF BmiGreater(weight, height, bmi_values[i + 1][2]) THEN 2 ELSE i1
      i3 == IF BmiGreater(weight, height, bmi_values[i + 1][3]) THEN 3 ELSE i2
  IN i3

\* the BMI rounded to one decimal as dtostrf(value, 2, 1, buffer) prints it,
\* in tenths (defined for height /= 0 and weight >= 0)
BmiTenths(weight, height) ==
  (200000 * weight + height * height) \div (2 * height * height)

\* printValue(lcd_bmi_value, 4, bmi): the first four characters of the text;
\* from 100.0 on the decimal digit is cut off (tenth = -1)
BmiText(weight, height) ==
  IF height = 0 \/ weight < 0 THEN [whole |-> -1, tenth |-> -1]
  ELSE LET t == BmiTenths(weight, height)
       IN IF t < 1000 THEN [whole |-> t \div 10, tenth |-> t % 10]
          ELSE [whole |-> t \div 10, tenth |-> -1]

\* rows after construction and after the two memcpy of emptyline in loop()
BlankRows == [kind |-> "blank"]

StrLen(s) ==
  CASE s = "Stoupni si"  -> 10
    [] s = "na vahu"     -> 7
    [] s = "Stuj klidne" -> 11
    [] s = "a rovne"     -> 7
    [] s = "Probiha"     -> 7
    [] s = "mereni..."   -> 9
    [] OTHER             -> 0

\* void message(line1, line2): both rows replaced by the centred text, or
\* nothing at all when a line does not fit
message(old, line1, line2) ==
  IF StrLen(line1) > LCD_COLS \/ StrLen(line2) > LCD_COLS THEN old
  ELSE [kind |-> "message", line1 |-> line1, line2 |-> line2]

\* rows after setWeight, setHeight and updateBMI on cleared rows
updateBMI(weight, height) ==
  [kind   |-> "result",
   weight |-> weight,
   height |-> height,
   bmi    |-> BmiText(weight, height),
   word   |-> bmi_words[BmiWordIndex(weight, height) + 1]]

\* what one call of updateBMI works with: the fields it reads and its locals
updateBMICall(weight, height) ==
  [weight |-> weight, height |-> height,
   i |-> getHeightIndex(height), index |-> BmiWordIndex(weight, height)]

\* ------------------------------------------------------- StabilityTracker
\* the state left by reset(), which is also the state after construction
ResetState ==
  [stableCount |-> 0, lastWeight |-> 0, lastHeight |-> 0, wasStable |-> FALSE]

\* a reset that forgets to zero the counter
reset_KeepCount(st) == [ResetState EXCEPT !.stableCount = st.stableCount]

\* a reset that does nothing
reset_Nothing(st) == st

\* a reset that leaves the last sample in place
reset_KeepLast(st) == [st EXCEPT !.stableCount = 0, !.wasStable = FALSE]

\* void reset()
reset(st) == ResetState

\* tolerance comparisons that count a difference equal to the tolerance as movement
WithinTolerance_Strict(currentWeight, currentHeight, lastW, lastH) ==
  /\ Abs(currentWeight - lastW) < WEIGHT_TOLERANCE_KG * Scale
  /\ Abs(currentHeight - lastH) < HEIGHT_TOLERANCE_CM * Scale

\* a tolerance test that lets the first sample after a reset pass
WithinTolerance_FirstFree(currentWeight, currentHeight, lastW, lastH) ==
  \/ (lastW = 0 /\ lastH = 0)
  \/ /\ Abs(currentWeight - lastW) <= WEIGHT_TOLERANCE_KG * Scale
     /\ Abs(currentHeight - lastH) <= HEIGHT_TOLERANCE_CM * Scale

\* a tolerance test that leaves out the height
WithinTolerance_WeightOnly(currentWeight, currentHeight, lastW, lastH) ==
  Abs(currentWeight - lastW) <= WEIGHT_TOLERANCE_KG * Scale

\* the two tolerance comparisons of checkStability
WithinTolerance(currentWeight, currentHeight, lastW, lastH) ==
  /\ Abs(currentWeight - lastW) <= WEIGHT_TOLERANCE_KG * Scale
  /\ Abs(currentHeight - lastH) <= HEIGHT_TOLERANCE_CM * Scale

\* a threshold comparison that is satisfied one reading late
ReachedRequired_OneLate(count) == count > STABLE_READINGS_REQUIRED

\* a threshold comparison that is satisfied one reading early
ReachedRequired_OneEarly(count) == count + 1 >= STABLE_READINGS_REQUIRED

\* return stableCount >= STABLE_READINGS_REQUIRED
ReachedRequired(count) == count >= STABLE_READINGS_REQUIRED

\* bool checkStability(currentWeight, currentHeight, movementDetected):
\* the set of outcomes [st, movementDetected, result].  stableCount++ at
\* INT_MAX is a signed overflow: the stored value wraps to INT_MIN and the
\* comparison against STABLE_READINGS_REQUIRED may have been folded onto the
\* value before the increment, so the returned flag is either value.
checkStability(st, currentWeight, currentHeight) ==
  LET stable == WithinTolerance(currentWeight, currentHeight,
                                st.lastWeight, st.lastHeight)
      upd(count) == [st EXCEPT !.stableCount = count,
                               !.lastWeight = currentWeight,
                               !.lastHeight = currentHeight]
  IN IF stable
     THEN IF st.stableCount < INT_MAX
          THEN {[st |-> upd(st.stableCount + 1), movementDetected |-> FALSE,
                 result |-> ReachedRequired(st.stableCount + 1)]}
          ELSE {[st |-> upd(INT_MIN), movementDetected |-> FALSE,
                 result |-> b] : b \in BOOLEAN}
     ELSE {[st |-> upd(0), movementDetected |-> TRUE,
            result |-> ReachedRequired(0)]}

\* ---------------------------------------------------------------- sensors
\* pulseIn returns 0 when no echo arrived within US_TIMEOUT_US
NoEcho == 0
\* the HX711 when is_ready() is false
NotReady == [is_ready |-> FALSE, units |-> 0]
\* the HX711 when is_ready() is true and get_units gives units (1/Scale kg)
Ready(units) == [is_ready |-> TRUE, units |-> units]

\* a height measurement without the lower range limit
measureHeightCm_NoLowerLimit(e) ==
  IF e = NoEcho THEN -1 * Scale
  ELSE IF e > SENSOR_MOUNT_HEIGHT_CM * Scale THEN -1 * Scale
       ELSE SENSOR_MOUNT_HEIGHT_CM * Scale - e

\* float measureHeightCm(): e is NoEcho or the distance the echo time
\* converts to, in 1/Scale cm
measureHeightCm(e) ==
  IF e = NoEcho THEN -1 * Scale
  ELSE IF e > SENSOR_MOUNT_HEIGHT_CM * Scale \/ e < MIN_DISTANCE_CM * Scale
       THEN -1 * Scale
       ELSE SENSOR_MOUNT_HEIGHT_CM * Scale - e

\* float measureWeightKg(): s is the state of the HX711
measureWeightKg(s) ==
  IF s.is_ready THEN s.units ELSE -1 * Scale

\* ------------------------------------------------------------------ state
VARIABLES
  stability,        \* the StabilityTracker object
  lcdWeight,        \* BMI_Display::weight
  lcdHeight,        \* BMI_Display::height
  rows,             \* BMI_Display::row1 and row2
  echo,             \* what the ultrasonic sensor gave in the last poll
  reading,          \* what the load cell gave in the last poll
  currentWeight,    \* locals of the last run of loop()
  currentHeight,
  movementDetected,
  isStable,
  verdict,          \* the branch the last run of loop() left through
  updates,          \* the rows shown by each lcd.update() of the last poll
  bmiCalls,         \* the (weight, height) of each updateBMI() of the last poll
  prevCount,        \* stableCount before the last poll
  runLen,           \* present polls since boot or the last reset (up to MaxRun)
  runLo,            \* least weight and height of those polls
  runHi,            \* greatest weight and height of those polls
  streak,           \* latest present polls in a row, each but the first within
                    \* tolerance of the sample before it (up to MaxRun)
  recent,           \* the latest samples since the last reset (SpecWindow only)
  seen              \* every result shown so far (SpecSeen only)

vars == <<stability, lcdWeight, lcdHeight, rows, echo, reading, currentWeight,
          currentHeight, movementDetected, isStable, verdict, updates,
          bmiCalls, prevCount, runLen, runLo, runHi, streak, recent, seen>>

\* a presence check that tests the weight only
Present_WeightOnly(weight, height) == ~(weight < MIN_WEIGHT_KG * Scale)

\* the presence check of loop(), negated
Present(weight, height) ==
  ~(weight < MIN_WEIGHT_KG * Scale \/ height < MIN_HEIGHT_CM * Scale)

\* a result display that runs updateBMI before setWeight and setHeight, on
\* the fields the display held before this poll
Branches_StaleFields(old, cw, ch, r) ==
  IF r.movementDetected
  THEN [verdict |-> "Moving", rows |-> message(old, "Stuj klidne", "a rovne"),
        updates |-> <<message(old, "Stuj klidne", "a rovne")>>,
        bmiCalls |-> <<>>, weight |-> -1, height |-> -1]
  ELSE IF ~r.result
  THEN [verdict |-> "Settling", rows |-> message(old, "Probiha", "mereni..."),
        updates |-> <<message(old, "Probiha", "mereni...")>>,
        bmiCalls |-> <<>>, weight |-> -1, height |-> -1]
  ELSE LET shown == [updateBMI(ToInt(cw), ToInt(ch)) EXCEPT
                       !.bmi = BmiText(lcdWeight, lcdHeight),
                       !.word = bmi_words[BmiWordIndex(lcdWeight, lcdHeight) + 1]]
       IN [verdict |-> "Stable", rows |-> shown, updates |-> <<shown>>,
           bmiCalls |-> <<updateBMICall(lcdWeight, lcdHeight)>>,
           weight |-> ToInt(cw), height |-> ToInt(ch)]

\* the part of loop() after checkStability returned r: the verdict, the rows
\* each lcd.update() showed and the updateBMI calls, branch by branch
Branches(old, cw, ch, r) ==
  IF r.movementDetected
  THEN [verdict |-> "Moving", rows |-> message(old, "Stuj klidne", "a rovne"),
        updates |-> <<message(old, "Stuj klidne", "a rovne")>>,
        bmiCalls |-> <<>>, weight |-> -1, height |-> -1]
  ELSE IF ~r.result
  THEN [verdict |-> "Settling", rows |-> message(old, "Probiha", "mereni..."),
        updates |-> <<message(old, "Probiha", "mereni...")>>,
        bmiCalls |-> <<>>, weight |-> -1, height |-> -1]
  ELSE [verdict |-> "Stable", rows |-> updateBMI(ToInt(cw), ToInt(ch)),
        updates |-> <<updateBMI(ToInt(cw), ToInt(ch))>>,
        bmiCalls |-> <<updateBMICall(ToInt(cw), ToInt(ch))>>,
        weight |-> ToInt(cw), height |-> ToInt(ch)]

Min(a, b) == IF a < b THEN a ELSE b
Max(a, b) == IF a > b THEN a ELSE b

Init ==
  /\ stability = ResetState
  /\ lcdWeight = 0
  /\ lcdHeight = 0
  /\ rows = BlankRows
  /\ echo = NoEcho
  /\ reading = NotReady
  /\ currentWeight = 0
  /\ currentHeight = 0
  /\ movementDetected = FALSE
  /\ isStable = FALSE
  /\ verdict = "Boot"
  /\ updates = <<>>
  /\ bmiCalls = <<>>
  /\ prevCount = 0
  /\ runLen = 0
  /\ runLo = [weight |-> 0, height |-> 0]
  /\ runHi = [weight |-> 0, height |-> 0]
  /\ streak = 0
  /\ recent = <<>>
  /\ seen = {}

\* one run of loop() with the sensors giving e and s
loop(e, s) ==
  LET ch == measureHeightCm(e)
      cw == measureWeightKg(s)
  IN /\ echo' = e
     /\ reading' = s
     /\ currentHeight' = ch
     /\ currentWeight' = cw
     /\ prevCount' = stability.stableCount
     /\ streak' = IF cw < 10 * Scale \/ ch < 100 * Scale THEN 0
                  ELSE IF /\ streak >= 1
                          /\ Abs(cw - currentWeight) <= 2 * Scale
                          /\ Abs(ch - currentHeight) <= 3 * Scale
                       THEN Min(streak + 1, MaxRun)
                       ELSE 1
     /\ IF ~Present(cw, ch)
        THEN /\ rows' = message(rows, "Stoupni si", "na vahu")
             /\ updates' = <<message(rows, "Stoupni si", "na vahu")>>
             /\ stability' = reset(stability)
             /\ verdict' = "AbsentOrInvalid"
             /\ movementDetected' = FALSE
             /\ isStable' = FALSE
             /\ bmiCalls' = <<>>
             /\ runLen' = 0
             /\ runLo' = [weight |-> 0, height |-> 0]
             /\ runHi' = [weight |-> 0, height |-> 0]
             /\ UNCHANGED <<lcdWeight, lcdHeight>>
        ELSE \E r \in checkStability(stability, cw, ch) :
               LET b == Branches(rows, cw, ch, r)
               IN /\ stability' = r.st
                  /\ movementDetected' = r.movementDetected
                  /\ isStable' = r.result
                  /\ verdict' = b.verdict
                  /\ rows' = b.rows
                  /\ updates' = b.updates
                  /\ bmiCalls' = b.bmiCalls
                  /\ lcdWeight' = IF b.verdict = "Stable" THEN b.weight ELSE lcdWeight
                  /\ lcdHeight' = IF b.verdict = "Stable" THEN b.height ELSE lcdHeight
                  /\ runLen' = IF runLen < MaxRun THEN runLen + 1 ELSE runLen
                  /\ runLo' = IF runLen = 0 THEN [weight |-> cw, height |-> ch]
                              ELSE [weight |-> Min(runLo.weight, cw),
                                    height |-> Min(runLo.height, ch)]
                  /\ runHi' = IF runLen = 0 THEN [weight |-> cw, height |-> ch]
                              ELSE [weight |-> Max(runHi.weight, cw),
                                    height |-> Max(runHi.height, ch)]

\* what the sensors give in the polls Spec follows: no echo, an obstacle
\* nearer than the sensor's range, and distances that leave heights of
\* 99.5, 100, 103 and 103.5 cm; no reading, and readings of 9.5, 10, 12 and
\* 12.5 kg
Echoes ==
  {NoEcho, 5 * Scale, 151 * Scale - 1, 150 * Scale, 147 * Scale, 147 * Scale - 1}

Readings ==
  {NotReady, Ready(10 * Scale - 1), Ready(10 * Scale), Ready(12 * Scale),
   Ready(12 * Scale + 1)}

Next ==
  \E e \in Echoes, s \in Readings :
    /\ Present(measureWeightKg(s), measureHeightCm(e)) => runLen < MaxRun
    /\ loop(e, s)
    /\ UNCHANGED <<recent, seen>>

Spec == Init /\ [][Next]_vars

\* The result display of loop() on its own.  The display starts with the
\* fields that setWeight and setHeight stored for an integer weight and
\* height on cleared rows ...
InitClassify ==
  /\ stability = ResetState
  /\ lcdWeight \in MinClassifyWeight..MaxClassifyWeight
  /\ lcdHeight \in MinClassifyHeight..MaxClassifyHeight
  /\ rows = BlankRows
  /\ echo = NoEcho
  /\ reading = NotReady
  /\ currentWeight = 0
  /\ currentHeight = 0
  /\ movementDetected = FALSE
  /\ isStable = FALSE
  /\ verdict = "Boot"
  /\ updates = <<>>
  /\ bmiCalls = <<>>
  /\ prevCount = 0
  /\ runLen = 0
  /\ runLo = [weight |-> 0, height |-> 0]
  /\ runHi = [weight |-> 0, height |-> 0]
  /\ streak = 0
  /\ recent = <<>>
  /\ seen = {}

\* ... and updateBMI and update are called once.
Classify ==
  /\ bmiCalls = <<>>
  /\ rows' = updateBMI(lcdWeight, lcdHeight)
  /\ updates' = <<updateBMI(lcdWeight, lcdHeight)>>
  /\ bmiCalls' = <<updateBMICall(lcdWeight, lcdHeight)>>
  /\ UNCHANGED <<stability, lcdWeight, lcdHeight, echo, reading,
                 currentWeight, currentHeight, movementDetected, isStable,
                 verdict, prevCount, runLen, runLo, runHi, streak, recent,
                 seen>>

NextClassify == Classify

\* updateBMI is a public member: called on a display whose height field is
\* zero (as after construction) or negative
InitClassifyBad ==
  /\ stability = ResetState
  /\ lcdWeight \in 0..MaxBadWeight
  /\ lcdHeight \in (-MaxBadHeight)..0
  /\ rows = BlankRows
  /\ echo = NoEcho
  /\ reading = NotReady
  /\ currentWeight = 0
  /\ currentHeight = 0
  /\ movementDetected = FALSE
  /\ isStable = FALSE
  /\ verdict = "Boot"
  /\ updates = <<>>
  /\ bmiCalls = <<>>
  /\ prevCount = 0
  /\ runLen = 0
  /\ runLo = [weight |-> 0, height |-> 0]
  /\ runHi = [weight |-> 0, height |-> 0]
  /\ streak = 0
  /\ recent = <<>>
  /\ seen = {}

SpecClassifyBad == InitClassifyBad /\ [][NextClassify]_vars

SpecClassify == InitClassify /\ [][NextClassify]_vars

\* Polls of any number: the sensors give no echo or a distance that leaves
\* 120 cm, and readings of 12 and 22.5 kg; runs of present polls are followed
\* through the whole range of the int counter.
LongEchoes == {NoEcho, 130 * Scale}

LongReadings == {Ready(12 * Scale), Ready(22 * Scale + 1)}

NextOverflow ==
  \E e \in LongEchoes, s \in LongReadings :
    loop(e, s) /\ UNCHANGED <<recent, seen>>

SpecOverflow == Init /\ [][NextOverflow]_vars

\* A subject of 22.5 kg and 120 cm who stands still or steps off, polled any
\* number of times; the Arduino core calls loop() again whenever it has
\* returned.
StillReadings == {Ready(22 * Scale + 1)}

NextStill ==
  \E e \in LongEchoes, s \in StillReadings :
    loop(e, s) /\ UNCHANGED <<recent, seen>>

SpecStillFair == Init /\ [][NextStill]_vars /\ WF_vars(NextStill)

\* Polls whose latest samples are kept: the sensors give no echo or
\* distances that leave 120 and 123.5 cm, and readings of 20, 22 and 22.5 kg.
WindowEchoes == {NoEcho, 130 * Scale, 127 * Scale - 1}

WindowReadings == {Ready(20 * Scale), Ready(22 * Scale), Ready(22 * Scale + 1)}

\* the last STABLE_READINGS_REQUIRED samples polled since the last reset
KeepRecent(cw, ch) ==
  IF ~Present(cw, ch) THEN <<>>
  ELSE LET all == Append(recent, [weight |-> cw, height |-> ch])
       IN IF Len(all) <= STABLE_READINGS_REQUIRED THEN all
          ELSE SubSeq(all, 2, Len(all))

NextWindow ==
  \E e \in WindowEchoes, s \in WindowReadings :
    /\ Present(measureWeightKg(s), measureHeightCm(e)) => runLen < MaxRun
    /\ loop(e, s)
    /\ recent' = KeepRecent(measureWeightKg(s), measureHeightCm(e))
    /\ UNCHANGED seen

SpecWindow == Init /\ [][NextWindow]_vars

\* The same polls, with every result that was shown kept.
NextSeen ==
  \E e \in WindowEchoes, s \in WindowReadings :
    /\ Present(measureWeightKg(s), measureHeightCm(e)) => runLen < MaxRun
    /\ loop(e, s)
    /\ seen' = IF verdict' = "Stable" THEN seen \cup {rows'} ELSE seen
    /\ UNCHANGED recent

SpecSeen == Init /\ [][NextSeen]_vars

\* ----------------------------------------------------------------- claims
\* the present polls since boot or the last reset are all within tolerance
\* of one another
RunTight ==
  /\ runHi.weight - runLo.weight <= 2 * Scale
  /\ runHi.height - runLo.height <= 3 * Scale

Polled == verdict /= "Boot"

\* C1 as stated: after a reset, the k-th of five consecutive present samples
\* that are within tolerance of each other yields Settling for k < 5 and
\* Stable for k = 5.
C1_StableOnFifth ==
  (Polled /\ runLen \in 1..5 /\ RunTight)
    => verdict = (IF runLen < 5 THEN "Settling" ELSE "Stable")

\* C1 amended: after a reset, the first of six consecutive present samples
\* that are within tolerance of each other yields Moving, the second to
\* fifth yield Settling and the sixth yields the first Stable.
C1_StableOnSixth ==
  (Polled /\ runLen \in 1..6 /\ RunTight)
    => verdict = (IF runLen = 1 THEN "Moving"
                  ELSE IF runLen < 6 THEN "Settling" ELSE "Stable")

C1_Witness ==
  /\ runLen = 6
  /\ RunTight
  /\ verdict = "Stable"
  /\ stability.stableCount = 5

\* C2: a poll whose sample has weight < 10 or height < 100 shows the
\* "step on the platform" prompt, whatever the tracker held before, and
\* leaves stable_count = 0 and last_sample = (0, 0).
C2_AbsentResets ==
  (Polled /\ (currentWeight < 10 * Scale \/ currentHeight < 100 * Scale))
    => /\ verdict = "AbsentOrInvalid"
       /\ updates = <<[kind |-> "message", line1 |-> "Stoupni si",
                                            line2 |-> "na vahu"]>>
       /\ rows = updates[1]
       /\ stability.stableCount = 0
       /\ stability.lastWeight = 0
       /\ stability.lastHeight = 0

C2_Witness ==
  /\ verdict = "AbsentOrInvalid"
  /\ currentWeight = 10 * Scale - 1
  /\ currentHeight >= 100 * Scale
  /\ prevCount >= 5

\* C3: for a present sample the verdict is Moving exactly when the height
\* differs from the last height by more than 3 cm or the weight from the last
\* weight by more than 2 kg; Moving zeroes stable_count and stores the sample.
C3_MovingIffBeyondTolerance ==
  [][ (currentWeight' >= 10 * Scale /\ currentHeight' >= 100 * Scale)
        => /\ (verdict' = "Moving")
                <=> \/ Abs(currentHeight' - stability.lastHeight) > 3 * Scale
                    \/ Abs(currentWeight' - stability.lastWeight) > 2 * Scale
           /\ (verdict' = "Moving")
                => /\ stability'.stableCount = 0
                   /\ stability'.lastWeight = currentWeight'
                   /\ stability'.lastHeight = currentHeight' ]_vars

C3_Witness ==
  /\ verdict = "Moving"
  /\ prevCount >= 5
  /\ stability.stableCount = 0
  /\ runHi.weight - runLo.weight > 2 * Scale
  /\ runHi.height - runLo.height <= 3 * Scale

\* C6: updateBMI is called only in a poll whose verdict is Stable, and then
\* with height >= 100 and weight >= 10.
C6_ClassifierOnlyWhenStable ==
  /\ bmiCalls /= <<>> => verdict = "Stable"
  /\ \A k \in 1..Len(bmiCalls) :
        bmiCalls[k].height >= 100 /\ bmiCalls[k].weight >= 10

C6_Witness ==
  /\ verdict = "Stable"
  /\ Len(bmiCalls) = 1
  /\ bmiCalls[1].height = 100
  /\ bmiCalls[1].weight = 10

\* C4: after a Stable verdict every further poll whose sample is present and
\* within tolerance of its predecessor is Stable again and does not lower
\* stable_count; only a Moving or AbsentOrInvalid poll leaves the confirmed
\* state.
C4_StablePersists ==
  [][ verdict = "Stable"
        => /\ ( /\ currentWeight' >= 10 * Scale
                /\ currentHeight' >= 100 * Scale
                /\ Abs(currentWeight' - stability.lastWeight) <= 2 * Scale
                /\ Abs(currentHeight' - stability.lastHeight) <= 3 * Scale )
              => verdict' = "Stable"
           /\ verdict' = "Stable"
              => stability'.stableCount >= stability.stableCount
           /\ verdict' /= "Stable"
              => verdict' \in {"Moving", "AbsentOrInvalid"} ]_vars

\* C5: a Settling or Stable poll raises stable_count by exactly 1; the count
\* drops only in a Moving or AbsentOrInvalid poll, and then to 0.
C5_CountMonotone ==
  [][ /\ verdict' \in {"Settling", "Stable"}
         => stability'.stableCount = stability.stableCount + 1
      /\ stability'.stableCount < stability.stableCount
         => /\ stability'.stableCount = 0
            /\ verdict' \in {"Moving", "AbsentOrInvalid"} ]_vars

\* C7: the band index is the position of the first breakpoint of
\* 115, 130, 145, 155, 165 that is strictly greater than the height, or 5
\* when there is none; 114 selects band 0, 115 band 1 and 165 band 5.
C7_BandIsFirstGreaterBreakpoint ==
  \A k \in 1..Len(bmiCalls) :
    LET h == bmiCalls[k].height
        breakpoints == <<115, 130, 145, 155, 165>>
        above == {j \in 1..5 : breakpoints[j] > h}
    IN /\ bmiCalls[k].i =
            (IF above = {} THEN 5
             ELSE (CHOOSE j \in above : \A m \in above : j <= m) - 1)
       /\ h = 114 => bmiCalls[k].i = 0
       /\ h = 115 => bmiCalls[k].i = 1
       /\ h = 165 => bmiCalls[k].i = 5

C7_Witness ==
  /\ Len(bmiCalls) = 1
  /\ bmiCalls[1].height = 115
  /\ bmiCalls[1].i = 1
  /\ verdict = "Boot"

\* C8: for height >= 100 and weight >= 10 the category is Underweight when
\* bmi <= c0, Normal when c0 < bmi <= c1, Overweight when c1 < bmi <= c2 and
\* Obese when bmi > c2, for the cut points of the selected band; (120, 22) is
\* Normal under the cut points 13.5, 18.0, 20.0.
C8_CategoryByCutPoints ==
  \A k \in 1..Len(bmiCalls) :
    LET c == bmiCalls[k]
        cuts == bmi_values[c.i + 1]
        \* 10 * bmi <= cut, on exact fractions
        AtMost(cut) == 100000 * c.weight <= cut * c.height * c.height
    IN (c.height >= 100 /\ c.weight >= 10)
         => /\ c.index = (IF AtMost(cuts[1]) THEN 0
                          ELSE IF AtMost(cuts[2]) THEN 1
                          ELSE IF AtMost(cuts[3]) THEN 2 ELSE 3)
            /\ rows.word = <<"podvaha", "v norme", "nadvaha", "obezita">>[c.index + 1]
            /\ (c.height = 120 /\ c.weight = 22)
                 => (cuts = <<135, 180, 200>> /\ rows.word = "v norme")

\* a BMI exactly on the first cut point of its band: (100, 13) has bmi 13.0
C8_Witness ==
  /\ Len(bmiCalls) = 1
  /\ bmiCalls[1].height >= 100
  /\ 100000 * bmiCalls[1].weight
       = bmi_values[bmiCalls[1].i + 1][1] * bmiCalls[1].height * bmiCalls[1].height
  /\ bmiCalls[1].index = 0
  /\ rows.word = "podvaha"
  /\ verdict = "Boot"

SensorFailed ==
  \/ echo = 0
  \/ echo > 250 * Scale
  \/ echo < 10 * Scale
  \/ ~reading.is_ready

C10_SensorFailureIsAbsence ==
  (Polled /\ SensorFailed)
    => /\ verdict = "AbsentOrInvalid"
       /\ updates = <<[kind |-> "message", line1 |-> "Stoupni si",
                                            line2 |-> "na vahu"]>>
       /\ stability = [stableCount |-> 0, lastWeight |-> 0, lastHeight |-> 0,
                       wasStable |-> FALSE]
       /\ \A e \in Echoes, s \in Readings : ENABLED loop(e, s)

\* no echo while the load cell reads 12 kg, right after a Stable verdict
C10_Witness ==
  /\ verdict = "AbsentOrInvalid"
  /\ echo = 0
  /\ reading.is_ready
  /\ reading.units = 12 * Scale
  /\ prevCount >= 5

\* two samples differ by at most 3 cm and at most 2 kg
Close(a, b) ==
  /\ Abs(a.weight - b.weight) <= 2 * Scale
  /\ Abs(a.height - b.height) <= 3 * Scale

\* C11 as stated: when Stable is issued, every two of the last five samples,
\* adjacent or not, are within tolerance of one another.
C11_RunPairwiseClose ==
  verdict = "Stable"
    => \A j, k \in 1..Len(recent) : Close(recent[j], recent[k])

\* C11 amended: when Stable is issued, five samples have been polled since
\* the last reset and each of the last five is within tolerance of the
\* sample polled right before it; samples further apart may differ by more.
C11_RunAdjacentClose ==
  verdict = "Stable"
    => /\ Len(recent) = 5
       /\ \A k \in 1..(Len(recent) - 1) : Close(recent[k], recent[k + 1])

\* a Stable verdict on samples that drifted: 20, 22, 22.5 kg
C11_Witness ==
  /\ verdict = "Stable"
  /\ Len(recent) = 5
  /\ \A k \in 1..4 : Close(recent[k], recent[k + 1])
  /\ \E j, k \in 1..5 : ~Close(recent[j], recent[k])

\* C12 as stated: in a run of present polls in which every sample stays
\* within tolerance of its predecessor, Stable is issued within five polls.
C12_StableWithinFive ==
  (Polled /\ streak = 5) => verdict = "Stable"

\* C12 amended: in a run of present polls in which every sample stays within
\* tolerance of its predecessor, Stable is issued on the sixth poll of the
\* run, whatever the tracker held when the run began; and no state is a
\* trap: a Settling phase always ends.
C12_StableWithinSix ==
  /\ []((Polled /\ streak = 6) => verdict = "Stable")
  /\ (verdict = "Settling") ~> (verdict /= "Settling")

\* the sixth poll of a run of samples of 22.5 kg
C12_Witness ==
  /\ streak = 6
  /\ verdict = "Stable"
  /\ prevCount = 4
  /\ stability.stableCount = 5
  /\ lcdWeight = 22

\* C13: reset() can be called in every tracker state, always leaves the boot
\* state (stable_count 0, last weight 0, last height 0, wasStable false), and
\* a second call changes nothing.
C13_ResetIsInitialAndIdempotent ==
  LET boot == [stableCount |-> 0, lastWeight |-> 0, lastHeight |-> 0,
               wasStable |-> FALSE]
  IN /\ reset(stability) = boot
     /\ reset(reset(stability)) = reset(stability)
     /\ verdict = "AbsentOrInvalid" => stability = boot

\* reset() called by a poll without a valid height while a result was shown
C13_Witness ==
  /\ verdict = "AbsentOrInvalid"
  /\ prevCount > 5
  /\ currentHeight < 100 * Scale
  /\ currentHeight > 0
  /\ currentWeight >= 10 * Scale
  /\ stability.stableCount = 0

\* C14: two classifications of the same integer height and weight show the
\* same BMI and the same category, whatever was shown or classified in
\* between; and classifying does not touch the tracker: after a Stable poll
\* it holds the count that checkStability's increment left and the sample as
\* it was polled.
C14_ClassifyDeterministic ==
  /\ \A a, b \in seen :
        (a.weight = b.weight /\ a.height = b.height)
          => (a.bmi = b.bmi /\ a.word = b.word)
  /\ verdict = "Stable"
       => /\ rows \in seen
          /\ (stability.stableCount = prevCount + 1 \/ prevCount = 32767)
          /\ stability.lastWeight = currentWeight
          /\ stability.lastHeight = currentHeight

\* (120, 22) classified again after (123, 20) and (123, 22) were shown
C14_Witness ==
  /\ verdict = "Stable"
  /\ Cardinality(seen) = 3
  /\ rows = [kind |-> "result", weight |-> 22, height |-> 120,
             bmi |-> [whole |-> 15, tenth |-> 3], word |-> "v norme"]
  /\ \E a \in seen : a.height = 123 /\ a.word = "podvaha"
  /\ prevCount >= 6
  /\ currentWeight = 22 * Scale + 1

\* C15: a classification with height <= 0 ends in an InvalidInput error: no
\* BMI and no category is computed or shown.
C15_InvalidHeightRejected ==
  \A k \in 1..Len(bmiCalls) :
    bmiCalls[k].height <= 0
      => /\ rows.kind /= "result"
         /\ updates = <<>>

\* C16: the result of a Stable poll carries the weight and height of that
\* poll's sample truncated to integers, and the BMI, the band and the
\* category are those of the truncated integers; the sample (120, 22.5) is
\* shown as 22 kg, 120 cm, BMI 15.3, Normal.
C16_ResultFromTruncatedSample ==
  verdict = "Stable"
    => LET w == currentWeight \div Scale
           h == currentHeight \div Scale
           t == (200000 * w + h * h) \div (2 * h * h)
           band == Cardinality({g \in {115, 130, 145, 155, 165} : g <= h})
           cuts == bmi_values[band + 1]
           word == IF 100000 * w <= cuts[1] * h * h THEN "podvaha"
                   ELSE IF 100000 * w <= cuts[2] * h * h THEN "v norme"
                   ELSE IF 100000 * w <= cuts[3] * h * h THEN "nadvaha"
                   ELSE "obezita"
       IN /\ rows = [kind |-> "result", weight |-> w, height |-> h,
                     bmi |-> [whole |-> t \div 10, tenth |-> t % 10],
                     word |-> word]
          /\ updates = <<rows>>
          /\ lcdWeight = w
          /\ lcdHeight = h
          /\ Len(bmiCalls) = 1
          /\ bmiCalls[1].weight = w
          /\ bmiCalls[1].height = h
          /\ bmiCalls[1].i = band
          /\ (currentWeight = 22 * Scale + 1 /\ currentHeight = 120 * Scale)
               => rows = [kind |-> "result", weight |-> 22, height |-> 120,
                          bmi |-> [whole |-> 15, tenth |-> 3],
                          word |-> "v norme"]

\* the sample (120, 22.5) shown, right after a poll of another sample
C16_Witness ==
  /\ verdict = "Stable"
  /\ currentWeight = 22 * Scale + 1
  /\ currentHeight = 120 * Scale
  /\ rows.weight = 22
  /\ rows.bmi = [whole |-> 15, tenth |-> 3]
  /\ runHi.weight - runLo.weight > 2 * Scale
  /\ runHi.height > currentHeight

\* C17: an AbsentOrInvalid poll discards the progress made before it: it
\* leaves stable_count = 0, and a result is on display only when at least
\* five present polls have been made since the last such poll.
C17_AbsenceDiscardsProgress ==
  /\ verdict = "AbsentOrInvalid" => (stability.stableCount = 0 /\ runLen = 0)
  /\ (verdict = "Stable" \/ rows.kind = "result") => runLen >= 5

\* five polls of the sample whose result was shown before the subject stepped
\* off, and still no result
C17_Witness ==
  /\ runLen = 5
  /\ verdict = "Settling"
  /\ stability.stableCount = 4
  /\ lcdWeight = currentWeight \div Scale
  /\ lcdHeight = currentHeight \div Scale
  /\ runLo = runHi
  /\ rows.kind = "message"

\* C18: stable_count is never negative, however long a run of in-tolerance
\* present polls lasts, and such a run never takes the count from at least
\* STABLE_READINGS_REQUIRED to below it.
C18_CountNeverNegative ==
  /\ stability.stableCount >= 0
  /\ (prevCount >= 5 /\ verdict \in {"Settling", "Stable"})
       => stability.stableCount >= 5

\* C19: the first present sample polled after boot or after a reset yields
\* Moving (the "stay still" prompt) with stable_count = 0, never Settling;
\* a result is shown only from the sixth present poll after an absence on.
C19_FirstSampleIsMoving ==
  /\ runLen = 1
       => /\ verdict = "Moving"
          /\ stability.stableCount = 0
          /\ updates = <<[kind |-> "message", line1 |-> "Stuj klidne",
                                               line2 |-> "a rovne"]>>
  /\ (verdict = "Stable" \/ rows.kind = "result") => runLen >= 6

\* the subject whose result was shown steps off and on again
C19_Witness ==
  /\ runLen = 1
  /\ verdict = "Moving"
  /\ prevCount = 0
  /\ stability.stableCount = 0
  /\ lcdWeight = currentWeight \div Scale
  /\ lcdHeight = currentHeight \div Scale
  /\ stability.lastWeight = currentWeight

====
